---- MODULE Spec2Model ----
(***************************************************************************)
(* calabi_yau.py: plot_calabi_yau(elev, azim, alpha_deg) and the __main__  *)
(* driver.  The mesh arithmetic is IEEE-754 binary64, modelled bit for bit *)
(* for +, -, * and comparison (round to nearest, ties to even) on          *)
(* multi-limb mantissas, because TLC's integers are 32 bits wide.          *)
(***************************************************************************)
EXTENDS Integers, Sequences, FiniteSets, TLC

(***************************************************************************)
(* Natural numbers of arbitrary size: little-endian sequences of limbs in  *)
(* 0 .. Base-1 with no leading zero limb; <<>> is 0.                       *)
(***************************************************************************)
Base == 2^14

Pow2(k) == 2^k

MaxOf(S) == CHOOSE x \in S : \A y \in S : y <= x

BStrip(a) ==
    LET nz == {i \in 1..Len(a) : a[i] # 0}
    IN  IF nz = {} THEN <<>> ELSE SubSeq(a, 1, MaxOf(nz))

BLimb(a, i) == IF i >= 1 /\ i <= Len(a) THEN a[i] ELSE 0

\* Carry propagation over at most ten column values below 2^30.
BCarry(cols) ==
    LET v1 == BLimb(cols, 1)
        v2 == BLimb(cols, 2) + (v1 \div Base)
        v3 == BLimb(cols, 3) + (v2 \div Base)
        v4 == BLimb(cols, 4) + (v3 \div Base)
        v5 == BLimb(cols, 5) + (v4 \div Base)
        v6 == BLimb(cols, 6) + (v5 \div Base)
        v7 == BLimb(cols, 7) + (v6 \div Base)
        v8 == BLimb(cols, 8) + (v7 \div Base)
        v9 == BLimb(cols, 9) + (v8 \div Base)
        v10 == BLimb(cols, 10) + (v9 \div Base)
    IN  BStrip(<<v1 % Base, v2 % Base, v3 % Base, v4 % Base, v5 % Base,
                 v6 % Base, v7 % Base, v8 % Base, v9 % Base, v10 % Base>>)

BMaxLen(a, b) == IF Len(a) >= Len(b) THEN Len(a) ELSE Len(b)

BAdd(a, b) == BCarry([i \in 1..BMaxLen(a, b) |-> BLimb(a, i) + BLimb(b, i)])

\* -1, 0, 1 as a < b, a = b, a > b.
BCmp(a, b) ==
    IF Len(a) < Len(b) THEN -1
    ELSE IF Len(a) > Len(b) THEN 1
    ELSE LET d == {i \in 1..Len(a) : a[i] # b[i]}
         IN  IF d = {} THEN 0
             ELSE IF a[MaxOf(d)] < b[MaxOf(d)] THEN -1 ELSE 1

\* a - b for a >= b, of at most ten limbs.
BSub(a, b) ==
    LET w1 == BLimb(a, 1) - BLimb(b, 1)
        w2 == BLimb(a, 2) - BLimb(b, 2) - (IF w1 < 0 THEN 1 ELSE 0)
        w3 == BLimb(a, 3) - BLimb(b, 3) - (IF w2 < 0 THEN 1 ELSE 0)
        w4 == BLimb(a, 4) - BLimb(b, 4) - (IF w3 < 0 THEN 1 ELSE 0)
        w5 == BLimb(a, 5) - BLimb(b, 5) - (IF w4 < 0 THEN 1 ELSE 0)
        w6 == BLimb(a, 6) - BLimb(b, 6) - (IF w5 < 0 THEN 1 ELSE 0)
        w7 == BLimb(a, 7) - BLimb(b, 7) - (IF w6 < 0 THEN 1 ELSE 0)
        w8 == BLimb(a, 8) - BLimb(b, 8) - (IF w7 < 0 THEN 1 ELSE 0)
        w9 == BLimb(a, 9) - BLimb(b, 9) - (IF w8 < 0 THEN 1 ELSE 0)
        w10 == BLimb(a, 10) - BLimb(b, 10) - (IF w9 < 0 THEN 1 ELSE 0)
    IN  BStrip(<<(w1 + Base) % Base, (w2 + Base) % Base, (w3 + Base) % Base, (w4 + Base) % Base, (w5 + Base) % Base,
                 (w6 + Base) % Base, (w7 + Base) % Base, (w8 + Base) % Base, (w9 + Base) % Base, (w10 + Base) % Base>>)

\* Schoolbook product; a and b have at most four limbs, so a column is below 2^30.
BMul(a, b) ==
    IF a = <<>> \/ b = <<>> THEN <<>>
    ELSE BCarry([j \in 1..(Len(a) + Len(b) - 1) |->
                    BLimb(a, 1) * BLimb(b, j) + BLimb(a, 2) * BLimb(b, j - 1)
                    + BLimb(a, 3) * BLimb(b, j - 2) + BLimb(a, 4) * BLimb(b, j - 3)])

\* a * 2^k.
BShl(a, k) ==
    IF a = <<>> THEN <<>>
    ELSE LET q == k \div 14
             p == Pow2(k % 14)
             sh == [i \in 1..(Len(a) + 1) |->
                       ((BLimb(a, i) * p) % Base) + ((BLimb(a, i - 1) * p) \div Base)]
         IN  BStrip([i \in 1..q |-> 0] \o sh)

\* floor(a / 2^k), and whether a bit was shifted out.
BShr(a, k) ==
    LET q == k \div 14
        p == Pow2(k % 14)
        rest == IF q >= Len(a) THEN <<>> ELSE SubSeq(a, q + 1, Len(a))
        quo == [i \in 1..Len(rest) |->
                   (rest[i] \div p) + ((BLimb(rest, i + 1) % p) * (Base \div p))]
    IN  [q |-> BStrip(quo),
         sticky |-> (\E i \in 1..Len(a) : i <= q /\ a[i] # 0)
                    \/ (rest # <<>> /\ rest[1] % p # 0)]

\* The bit length of a limb.
BitsOf(v) ==
    IF v < 128
    THEN (IF v < 8 THEN (IF v < 1 THEN 0 ELSE IF v < 2 THEN 1 ELSE IF v < 4 THEN 2 ELSE 3)
          ELSE IF v < 16 THEN 4 ELSE IF v < 32 THEN 5 ELSE IF v < 64 THEN 6 ELSE 7)
    ELSE (IF v < 1024 THEN (IF v < 256 THEN 8 ELSE IF v < 512 THEN 9 ELSE 10)
          ELSE IF v < 2048 THEN 11 ELSE IF v < 4096 THEN 12 ELSE IF v < 8192 THEN 13 ELSE 14)

BBitLen(a) == IF a = <<>> THEN 0 ELSE 14 * (Len(a) - 1) + BitsOf(a[Len(a)])

BOdd(a) == a # <<>> /\ a[1] % 2 = 1

(***************************************************************************)
(* binary64 values: sign s, mantissa m (53 bits, or <<>> for zero) and     *)
(* exponent e with value (-1)^s * m * 2^e; nan marks a NaN.  Zero carries  *)
(* no sign (-0.0 and 0.0 compare equal in every use the program makes).    *)
(***************************************************************************)
NaN == [nan |-> TRUE, s |-> 0, m |-> <<>>, e |-> 0]

FZero == [nan |-> FALSE, s |-> 0, m |-> <<>>, e |-> 0]

Dbl(s, e, m) == [nan |-> FALSE, s |-> s, m |-> m, e |-> e]

FIsZero(a) == ~a.nan /\ a.m = <<>>

\* (-1)^s * m * 2^e rounded to nearest, ties to even.
FRound(s, m, e) ==
    IF m = <<>> THEN FZero
    ELSE LET L == BBitLen(m)
         IN  IF L <= 53 THEN Dbl(s, e - (53 - L), BShl(m, 53 - L))
             ELSE LET sh == L - 53
                      r == BShr(m, sh - 1)
                      q == BShr(r.q, 1).q
                      up == BOdd(r.q) /\ (r.sticky \/ BOdd(q))
                      q1 == IF up THEN BAdd(q, <<1>>) ELSE q
                  IN  IF BBitLen(q1) = 54 THEN Dbl(s, e + sh + 1, BShr(q1, 1).q)
                      ELSE Dbl(s, e + sh, q1)

FNeg(a) == IF a.nan \/ a.m = <<>> THEN a ELSE [a EXCEPT !.s = 1 - a.s]

FAbs(a) == IF a.nan THEN a ELSE [a EXCEPT !.s = 0]

FMul(a, b) ==
    IF a.nan \/ b.nan THEN NaN
    ELSE IF a.m = <<>> \/ b.m = <<>> THEN FZero
    ELSE FRound((a.s + b.s) % 2, BMul(a.m, b.m), a.e + b.e)

FAdd(a, b) ==
    IF a.nan \/ b.nan THEN NaN
    ELSE IF a.m = <<>> THEN b
    ELSE IF b.m = <<>> THEN a
    ELSE LET hi == IF a.e >= b.e THEN a ELSE b
             lo == IF a.e >= b.e THEN b ELSE a
             d == hi.e - lo.e
         IN  IF d > 60 THEN hi
             ELSE LET mh == BShl(hi.m, d)
                      c == BCmp(mh, lo.m)
                  IN  IF hi.s = lo.s THEN FRound(hi.s, BAdd(mh, lo.m), lo.e)
                      ELSE IF c = 0 THEN FZero
                      ELSE IF c > 0 THEN FRound(hi.s, BSub(mh, lo.m), lo.e)
                      ELSE FRound(lo.s, BSub(lo.m, mh), lo.e)

FSub(a, b) == FAdd(a, FNeg(b))

\* a * 2^k, exact.
FScale(a, k) == IF a.nan \/ a.m = <<>> THEN a ELSE [a EXCEPT !.e = a.e + k]

\* Magnitudes of two finite values: -1, 0, 1.
FCmpMag(a, b) ==
    IF a.m = <<>> THEN (IF b.m = <<>> THEN 0 ELSE -1)
    ELSE IF b.m = <<>> THEN 1
    ELSE IF a.e < b.e THEN -1
    ELSE IF a.e > b.e THEN 1
    ELSE BCmp(a.m, b.m)

\* Two finite values: -1, 0, 1.
FCmp(a, b) ==
    IF a.m = <<>> /\ b.m = <<>> THEN 0
    ELSE IF a.m = <<>> THEN (IF b.s = 0 THEN -1 ELSE 1)
    ELSE IF b.m = <<>> THEN (IF a.s = 0 THEN 1 ELSE -1)
    ELSE IF a.s # b.s THEN (IF a.s = 0 THEN 1 ELSE -1)
    ELSE IF a.s = 0 THEN FCmpMag(a, b)
    ELSE FCmpMag(b, a)

\* The comparisons of Python and numpy: false when an operand is NaN.
FLeq(a, b) == ~a.nan /\ ~b.nan /\ FCmp(a, b) <= 0

FEq(a, b) == ~a.nan /\ ~b.nan /\ FCmp(a, b) = 0

FMax2(a, b) == IF a.nan \/ b.nan THEN NaN ELSE IF FCmp(a, b) >= 0 THEN a ELSE b

FMin2(a, b) == IF a.nan \/ b.nan THEN NaN ELSE IF FCmp(a, b) <= 0 THEN a ELSE b

(***************************************************************************)
(* Inputs.  elev, azim and alpha_deg are Python numbers; the model draws   *)
(* them from multiples of a tenth of a degree (d = 10 * degrees) and NaN.  *)
(***************************************************************************)
Deg(x) == [nan |-> FALSE, d |-> 10 * x]

Tenths(x) == [nan |-> FALSE, d |-> x]

NaNDeg == [nan |-> TRUE, d |-> 0]

\* Variant: rounds toward minus infinity instead of toward zero.
IntOfFloor(x) == x.d \div 10

\* int(x) of line 112: truncation toward zero.
IntOf(x) == IF x.d >= 0 THEN x.d \div 10 ELSE -((-x.d) \div 10)

(***************************************************************************)
(* binary64 results of the library calls of lines 47-70 at the sampled     *)
(* grid positions <<j, i>> (row j of theta, column i of xi):               *)
(*   CoshPowTab[q] = np.cosh(w) ** (2 / n),  w = Xi[j, i] + 1j*Theta[j, i] *)
(*   SinhPowTab[q] = np.sinh(w) ** (2 / n)   (0 ** 0.4 is 0 at w = 0)      *)
(*   PhaseTab[k+1] = np.exp(2j * np.pi * k / n)                            *)
(*   CosTab(d), SinTab(d) = np.cos, np.sin of np.radians(d / 10)           *)
(* The first sixteen positions hold the extreme points of X, Y and of Z    *)
(* for every alpha_deg the model uses, the zero of sinh and the zero of    *)
(* cos(theta): the limits of the sample are those of the 25 x 25 grid.     *)
(***************************************************************************)
NSample == 16

n == 5

SamplePos ==
    <<<<0, 0>>,
      <<19, 0>>,
      <<5, 24>>,
      <<24, 0>>,
      <<6, 24>>,
      <<6, 0>>,
      <<10, 24>>,
      <<10, 0>>,
      <<12, 24>>,
      <<12, 0>>,
      <<14, 24>>,
      <<14, 0>>,
      <<18, 24>>,
      <<18, 0>>,
      <<0, 12>>,
      <<24, 12>>,
      <<12, 6>>,
      <<3, 17>>>>

CoshPowTab ==
    <<[re |-> Dbl(0, -52, <<9017, 15830, 372, 1218>>), im |-> FZero],
      [re |-> Dbl(0, -53, <<2051, 1161, 6303, 1985>>), im |-> Dbl(1, -54, <<8369, 14192, 4965, 1970>>)],
      [re |-> Dbl(0, -52, <<9249, 6477, 1432, 1201>>), im |-> Dbl(0, -56, <<6552, 9478, 6033, 1951>>)],
      [re |-> Dbl(0, -53, <<12125, 15793, 6395, 1767>>), im |-> Dbl(1, -53, <<14498, 12124, 1380, 1284>>)],
      [re |-> Dbl(0, -52, <<10523, 9481, 11209, 1193>>), im |-> Dbl(0, -55, <<5433, 13695, 1731, 1173>>)],
      [re |-> Dbl(0, -52, <<10523, 9481, 11209, 1193>>), im |-> Dbl(1, -55, <<5433, 13695, 1731, 1173>>)],
      [re |-> Dbl(0, -52, <<3109, 7258, 4114, 1151>>), im |-> Dbl(0, -55, <<13665, 8417, 15230, 1977>>)],
      [re |-> Dbl(0, -52, <<3109, 7258, 4114, 1151>>), im |-> Dbl(1, -55, <<13665, 8417, 15230, 1977>>)],
      [re |-> Dbl(0, -52, <<928, 103, 12749, 1122>>), im |-> Dbl(0, -54, <<6422, 2453, 6978, 1196>>)],
      [re |-> Dbl(0, -52, <<928, 103, 12749, 1122>>), im |-> Dbl(1, -54, <<6422, 2453, 6978, 1196>>)],
      [re |-> Dbl(0, -52, <<14064, 4416, 15654, 1089>>), im |-> Dbl(0, -54, <<327, 6112, 5999, 1409>>)],
      [re |-> Dbl(0, -52, <<14064, 4416, 15654, 1089>>), im |-> Dbl(1, -54, <<327, 6112, 5999, 1409>>)],
      [re |-> Dbl(0, -53, <<8697, 873, 627, 2027>>), im |-> Dbl(0, -54, <<6312, 3746, 11569, 1854>>)],
      [re |-> Dbl(0, -53, <<8697, 873, 627, 2027>>), im |-> Dbl(1, -54, <<6312, 3746, 11569, 1854>>)],
      [re |-> Dbl(0, -52, <<0, 0, 0, 1024>>), im |-> FZero],
      [re |-> Dbl(0, -74, <<12112, 4837, 4022, 1405>>), im |-> FZero],
      [re |-> Dbl(0, -53, <<952, 1589, 6469, 1915>>), im |-> Dbl(1, -55, <<3712, 2506, 848, 1340>>)],
      [re |-> Dbl(0, -52, <<641, 10198, 12249, 1051>>), im |-> Dbl(0, -57, <<9968, 12066, 9389, 1053>>)]>>

SinhPowTab ==
    <<[re |-> Dbl(0, -54, <<12686, 8014, 2721, 1350>>), im |-> Dbl(0, -52, <<13693, 14053, 13860, 1038>>)],
      [re |-> Dbl(0, -53, <<15002, 14834, 443, 1800>>), im |-> Dbl(0, -53, <<8941, 4905, 4902, 1609>>)],
      [re |-> Dbl(0, -52, <<5995, 8585, 10383, 1092>>), im |-> Dbl(0, -55, <<15312, 15808, 14778, 1479>>)],
      [re |-> Dbl(0, -53, <<9265, 12414, 13143, 1970>>), im |-> Dbl(0, -53, <<13277, 14307, 14280, 1431>>)],
      [re |-> Dbl(0, -52, <<13739, 9108, 8133, 1092>>), im |-> Dbl(0, -55, <<1059, 2161, 14340, 1764>>)],
      [re |-> Dbl(0, -53, <<11279, 11215, 13499, 1094>>), im |-> Dbl(0, -53, <<14574, 2942, 11593, 1941>>)],
      [re |-> Dbl(0, -52, <<13812, 10203, 14641, 1088>>), im |-> Dbl(0, -54, <<1190, 14201, 7172, 1422>>)],
      [re |-> Dbl(0, -53, <<214, 7167, 6269, 1349>>), im |-> Dbl(0, -53, <<10157, 10620, 6882, 1851>>)],
      [re |-> Dbl(0, -52, <<12976, 13297, 2571, 1084>>), im |-> Dbl(0, -54, <<13797, 7907, 14431, 1671>>)],
      [re |-> Dbl(0, -53, <<6401, 12710, 1186, 1465>>), im |-> Dbl(0, -53, <<3428, 12588, 14242, 1803>>)],
      [re |-> Dbl(0, -52, <<1052, 9515, 11574, 1076>>), im |-> Dbl(0, -54, <<4496, 9933, 10885, 1906>>)],
      [re |-> Dbl(0, -53, <<5851, 9803, 1867, 1572>>), im |-> Dbl(0, -53, <<9452, 5983, 6906, 1753>>)],
      [re |-> Dbl(0, -52, <<173, 10286, 14787, 1051>>), im |-> Dbl(0, -53, <<7701, 9865, 16290, 1165>>)],
      [re |-> Dbl(0, -53, <<14050, 13613, 622, 1759>>), im |-> Dbl(0, -53, <<15052, 3130, 8610, 1640>>)],
      [re |-> FZero, im |-> FZero],
      [re |-> Dbl(0, -53, <<13480, 11871, 14201, 1656>>), im |-> Dbl(0, -53, <<6750, 4565, 12848, 1203>>)],
      [re |-> Dbl(0, -53, <<3740, 12680, 10998, 1352>>), im |-> Dbl(0, -53, <<10151, 14937, 14286, 1396>>)],
      [re |-> Dbl(0, -53, <<5789, 11481, 2970, 1489>>), im |-> Dbl(0, -55, <<14394, 8369, 13665, 1126>>)]>>

PhaseTab ==
    <<[re |-> Dbl(0, -52, <<0, 0, 0, 1024>>), im |-> FZero],
      [re |-> Dbl(0, -54, <<10576, 7359, 12019, 1265>>), im |-> Dbl(0, -53, <<5375, 3345, 12513, 1947>>)],
      [re |-> Dbl(1, -53, <<13479, 11871, 14201, 1656>>), im |-> Dbl(0, -53, <<6751, 4565, 12848, 1203>>)],
      [re |-> Dbl(1, -53, <<13481, 11871, 14201, 1656>>), im |-> Dbl(1, -53, <<6749, 4565, 12848, 1203>>)],
      [re |-> Dbl(0, -54, <<10572, 7359, 12019, 1265>>), im |-> Dbl(1, -53, <<5376, 3345, 12513, 1947>>)]>>

CosTab(d) ==
    CASE d = 0 -> Dbl(0, -52, <<0, 0, 0, 1024>>)
      [] d = 300 -> Dbl(0, -53, <<3243, 8545, 10158, 1773>>)
      [] d = 450 -> Dbl(0, -53, <<15309, 6652, 2534, 1448>>)
      [] d = 600 -> Dbl(0, -53, <<1, 0, 0, 1024>>)
      [] d = 900 -> Dbl(0, -106, <<7175, 3153, 8803, 1129>>)

SinTab(d) ==
    CASE d = 0 -> FZero
      [] d = 300 -> Dbl(0, -54, <<16383, 16383, 16383, 2047>>)
      [] d = 450 -> Dbl(0, -53, <<15308, 6652, 2534, 1448>>)
      [] d = 600 -> Dbl(0, -53, <<3242, 8545, 10158, 1773>>)
      [] d = 900 -> Dbl(0, -52, <<0, 0, 0, 1024>>)


CMul(a, b) ==
    [re |-> FSub(FMul(a.re, b.re), FMul(a.im, b.im)),
     im |-> FAdd(FMul(a.re, b.im), FMul(a.im, b.re))]

Phase(kk) == PhaseTab[kk + 1]

\* alpha = np.radians(alpha_deg); np.cos(alpha), np.sin(alpha).
CosAlpha(al) == IF al.nan THEN NaN ELSE CosTab(al.d)

\* Variant: the cosine is taken where the sine belongs.
SinAlphaAsCos(al) == IF al.nan THEN NaN ELSE CosTab(al.d)

SinAlpha(al) == IF al.nan THEN NaN ELSE SinTab(al.d)

\* z1 = phase1 * (np.cosh(w)) ** (2 / n) at sample position q.
Z1(ka, q) == CMul(Phase(ka), CoshPowTab[q])

\* z2 = phase2 * (np.sinh(w)) ** (2 / n) at sample position q.
Z2(kb, q) == CMul(Phase(kb), SinhPowTab[q])

\* Variant: the two coefficients are exchanged.
ZPointSwapped(c, s, im1, im2) == FAdd(FMul(s, im1), FMul(c, im2))

\* Z = np.cos(alpha) * z1.imag + np.sin(alpha) * z2.imag.
ZPoint(c, s, im1, im2) == FAdd(FMul(c, im1), FMul(s, im2))

Sheets == 0..(n - 1)

Z1Tab == [ka \in Sheets |-> [q \in 1..NSample |-> Z1(ka, q)]]

Z2Tab == [kb \in Sheets |-> [q \in 1..NSample |-> Z2(kb, q)]]

AlphaDom == {Deg(0), Deg(30), Deg(45), Deg(60), Deg(90), NaNDeg}

ZTab ==
    [al \in AlphaDom |-> [ka \in Sheets |-> [kb \in Sheets |-> [q \in 1..NSample |->
        ZPoint(CosAlpha(al), SinAlpha(al), Z1Tab[ka][q].im, Z2Tab[kb][q].im)]]]]

\* X = z1.real, Y = z2.real, Z of one sheet.
SheetX(ka) == [q \in 1..NSample |-> Z1Tab[ka][q].re]

SheetY(kb) == [q \in 1..NSample |-> Z2Tab[kb][q].re]

SheetZ(al, ka, kb) == ZTab[al][ka][kb]

(***************************************************************************)
(* Lines 85-106: the limits.                                               *)
(***************************************************************************)
RECURSIVE ArrMaxFrom(_, _, _)
ArrMaxFrom(arr, ix, acc) ==
    IF ix > NSample THEN acc ELSE ArrMaxFrom(arr, ix + 1, FMax2(acc, arr[ix]))

RECURSIVE ArrMinFrom(_, _, _)
ArrMinFrom(arr, ix, acc) ==
    IF ix > NSample THEN acc ELSE ArrMinFrom(arr, ix + 1, FMin2(acc, arr[ix]))

RECURSIVE FullMaxFrom(_, _, _)
FullMaxFrom(all, ix, acc) ==
    IF ix > Len(all) THEN acc
    ELSE FullMaxFrom(all, ix + 1, FMax2(acc, ArrMaxFrom(all[ix], 2, all[ix][1])))

RECURSIVE FullMinFrom(_, _, _)
FullMinFrom(all, ix, acc) ==
    IF ix > Len(all) THEN acc
    ELSE FullMinFrom(all, ix + 1, FMin2(acc, ArrMinFrom(all[ix], 2, all[ix][1])))

\* full.max() and full.min() of the concatenated sheets.
FullMax(all) == FullMaxFrom(all, 2, ArrMaxFrom(all[1], 2, all[1][1]))

FullMin(all) == FullMinFrom(all, 2, ArrMinFrom(all[1], 2, all[1][1]))

Half == Dbl(0, -53, <<0, 0, 0, 1024>>)

\* Variant: the range of Z is left out of the maximum.
MaxRangeXY(ax, ay, az) ==
    FScale(FMax2(FSub(FullMax(ax), FullMin(ax)), FSub(FullMax(ay), FullMin(ay))), -1)

\* max_range of lines 89-98.
MaxRange(ax, ay, az) ==
    FScale(FMax2(FMax2(FSub(FullMax(ax), FullMin(ax)), FSub(FullMax(ay), FullMin(ay))),
                 FSub(FullMax(az), FullMin(az))), -1)

\* Variant: the difference is halved instead of the sum.
MidOfDifference(all) == FMul(FSub(FullMax(all), FullMin(all)), Half)

\* mid_x, mid_y, mid_z of lines 100-102.
Mid(all) == FMul(FAdd(FullMax(all), FullMin(all)), Half)

\* The pair handed to set_xlim, set_ylim, set_zlim.
AxisLim(all, mr) == <<FSub(Mid(all), mr), FAdd(Mid(all), mr)>>

(***************************************************************************)
(* Line 111-113: the file name.                                            *)
(***************************************************************************)
FileName(el, az, al) ==
    "images/calabi_yau_elev" \o ToString(IntOf(el)) \o "_azim" \o ToString(IntOf(az))
        \o "_alpha" \o ToString(IntOf(al)) \o ".png"

(***************************************************************************)
(* The program.                                                            *)
(***************************************************************************)
MaxCalls == 2

Elev32 == 32

AzimStop == 360

AzimStep == 15

AlphaStop == 120

AlphaStep == 30

\* The arguments of a single run or of a caller of the imported module.
ArgSet ==
    { <<Deg(32), Deg(45), Deg(45)>>,
      <<Tenths(325), Tenths(9), Deg(0)>>,
      <<Deg(32), Deg(0), Deg(0)>>,
      <<Tenths(-5), Tenths(459), Deg(90)>>,
      <<Deg(32), Deg(45), NaNDeg>>,
      <<NaNDeg, Deg(0), Deg(0)>> }

VARIABLES mode, dirExists, pc, loop_azim, loop_alpha, ncalls, calls,
          elev, azim, alpha_deg, k1, k2, all_x, all_y, all_z, order,
          figs, files

vars == <<mode, dirExists, pc, loop_azim, loop_alpha, ncalls, calls,
          elev, azim, alpha_deg, k1, k2, all_x, all_y, all_z, order,
          figs, files>>

locals == <<k1, k2, all_x, all_y, all_z, order>>

NoFiles == [f \in {} |-> 0]

Init ==
    /\ mode \in {"all", "single", "import"}
    /\ dirExists \in BOOLEAN
    /\ pc = "main"
    /\ loop_azim = 0
    /\ loop_alpha = 0
    /\ ncalls = 0
    /\ calls = <<>>
    /\ elev = Deg(0)
    /\ azim = Deg(0)
    /\ alpha_deg = Deg(0)
    /\ k1 = 0
    /\ k2 = 0
    /\ all_x = <<>>
    /\ all_y = <<>>
    /\ all_z = <<>>
    /\ order = <<>>
    /\ figs = <<>>
    /\ files = NoFiles

\* plot_calabi_yau(el, az, al) is entered.
Call(el, az, al) ==
    /\ elev' = el
    /\ azim' = az
    /\ alpha_deg' = al
    /\ ncalls' = ncalls + 1
    /\ calls' = Append(calls, <<el, az, al>>)
    /\ pc' = "figure"
    /\ UNCHANGED <<mode, dirExists, locals, figs, files>>

\* Variant: the inner loop is not restarted for the next azimuth.
MainBatchNoRestart ==
    /\ pc = "main"
    /\ mode = "all"
    /\ loop_azim < AzimStop
    /\ Call(Deg(Elev32), Deg(loop_azim), Deg(loop_alpha))
    /\ IF loop_alpha + AlphaStep < AlphaStop
       THEN loop_alpha' = loop_alpha + AlphaStep /\ loop_azim' = loop_azim
       ELSE loop_alpha' = loop_alpha /\ loop_azim' = loop_azim + AzimStep

\* Lines 126-129: one iteration of the two loops of --all.
MainBatch ==
    /\ pc = "main"
    /\ mode = "all"
    /\ loop_azim < AzimStop
    /\ Call(Deg(Elev32), Deg(loop_azim), Deg(loop_alpha))
    /\ IF loop_alpha + AlphaStep < AlphaStop
       THEN loop_alpha' = loop_alpha + AlphaStep /\ loop_azim' = loop_azim
       ELSE loop_alpha' = 0 /\ loop_azim' = loop_azim + AzimStep

\* Line 131: the single render of the parsed arguments.
MainSingle ==
    /\ pc = "main"
    /\ mode = "single"
    /\ ncalls = 0
    /\ \E a \in ArgSet : Call(a[1], a[2], a[3])
    /\ UNCHANGED <<loop_azim, loop_alpha>>

\* Line 7: a caller of the imported module invokes the function.
ImportCall ==
    /\ pc = "main"
    /\ mode = "import"
    /\ ncalls < MaxCalls
    /\ \E a \in ArgSet : Call(a[1], a[2], a[3])
    /\ UNCHANGED <<loop_azim, loop_alpha>>

\* The driver has nothing left to run.
MainDone ==
    /\ pc = "main"
    /\ \/ mode = "all" /\ loop_azim >= AzimStop
       \/ mode = "single" /\ ncalls = 1
       \/ mode = "import"
    /\ pc' = "done"
    /\ UNCHANGED <<mode, dirExists, loop_azim, loop_alpha, ncalls, calls,
                   elev, azim, alpha_deg, locals, figs, files>>

\* Variant: the lists of the previous call are kept.
NewFigureKeepLists ==
    /\ pc = "figure"
    /\ figs' = Append(figs, [serial |-> ncalls, lines |-> {}, lims |-> <<>>,
                             view |-> <<>>, text |-> <<alpha_deg, azim, elev>>])
    /\ order' = <<>>
    /\ k1' = 0
    /\ k2' = 0
    /\ pc' = "sheets"
    /\ UNCHANGED <<mode, dirExists, loop_azim, loop_alpha, ncalls, calls,
                   elev, azim, alpha_deg, all_x, all_y, all_z, files>>

\* Lines 9-57: a new figure (now the current one), its texts, the empty lists.
NewFigure ==
    /\ pc = "figure"
    /\ figs' = Append(figs, [serial |-> ncalls, lines |-> {}, lims |-> <<>>,
                             view |-> <<>>, text |-> <<alpha_deg, azim, elev>>])
    /\ all_x' = <<>>
    /\ all_y' = <<>>
    /\ all_z' = <<>>
    /\ order' = <<>>
    /\ k1' = 0
    /\ k2' = 0
    /\ pc' = "sheets"
    /\ UNCHANGED <<mode, dirExists, loop_azim, loop_alpha, ncalls, calls,
                   elev, azim, alpha_deg, files>>

\* Variant: k2 is the outer loop and k1 the inner one.
SheetSwappedLoops ==
    /\ pc = "sheets"
    /\ all_x' = Append(all_x, SheetX(k1))
    /\ all_y' = Append(all_y, SheetY(k2))
    /\ all_z' = Append(all_z, SheetZ(alpha_deg, k1, k2))
    /\ order' = Append(order, <<k1, k2>>)
    /\ figs' = [figs EXCEPT ![Len(figs)].lines = @ \cup {<<ncalls, k1, k2>>}]
    /\ IF k1 + 1 < n THEN k1' = k1 + 1 /\ k2' = k2 /\ pc' = pc
       ELSE IF k2 + 1 < n THEN k1' = 0 /\ k2' = k2 + 1 /\ pc' = pc
       ELSE UNCHANGED <<k1, k2>> /\ pc' = "limits"
    /\ UNCHANGED <<mode, dirExists, loop_azim, loop_alpha, ncalls, calls,
                   elev, azim, alpha_deg, files>>

\* Lines 59-83: one iteration of the loops over k1 and k2.
Sheet ==
    /\ pc = "sheets"
    /\ all_x' = Append(all_x, SheetX(k1))
    /\ all_y' = Append(all_y, SheetY(k2))
    /\ all_z' = Append(all_z, SheetZ(alpha_deg, k1, k2))
    /\ order' = Append(order, <<k1, k2>>)
    /\ figs' = [figs EXCEPT ![Len(figs)].lines = @ \cup {<<ncalls, k1, k2>>}]
    /\ IF k2 + 1 < n THEN k2' = k2 + 1 /\ k1' = k1 /\ pc' = pc
       ELSE IF k1 + 1 < n THEN k2' = 0 /\ k1' = k1 + 1 /\ pc' = pc
       ELSE UNCHANGED <<k1, k2>> /\ pc' = "limits"
    /\ UNCHANGED <<mode, dirExists, loop_azim, loop_alpha, ncalls, calls,
                   elev, azim, alpha_deg, files>>

\* Lines 85-109: the limits and the camera; matplotlib accepts finite limits only.
SetLimits ==
    /\ pc = "limits"
    /\ LET mr == MaxRange(all_x, all_y, all_z)
       IN  /\ ~mr.nan
           /\ figs' = [figs EXCEPT ![Len(figs)].lims =
                           <<AxisLim(all_x, mr), AxisLim(all_y, mr), AxisLim(all_z, mr)>>,
                                   ![Len(figs)].view = <<elev, azim>>]
    /\ pc' = "export"
    /\ UNCHANGED <<mode, dirExists, loop_azim, loop_alpha, ncalls, calls,
                   elev, azim, alpha_deg, locals, files>>

\* Line 104 with a NaN limit: set_xlim raises ValueError, which nothing handles.
LimitsFail ==
    /\ pc = "limits"
    /\ MaxRange(all_x, all_y, all_z).nan
    /\ pc' = "failed"
    /\ UNCHANGED <<mode, dirExists, loop_azim, loop_alpha, ncalls, calls,
                   elev, azim, alpha_deg, locals, figs, files>>

\* Lines 111-114: savefig writes the current figure under the file name.
Export ==
    /\ pc = "export"
    /\ ~(elev.nan \/ azim.nan \/ alpha_deg.nan)
    /\ dirExists
    /\ files' = (FileName(elev, azim, alpha_deg) :> figs[Len(figs)]) @@ files
    /\ pc' = "close"
    /\ UNCHANGED <<mode, dirExists, loop_azim, loop_alpha, ncalls, calls,
                   elev, azim, alpha_deg, locals, figs>>

\* Variant: the error is swallowed and the driver goes on.
ExportFailHandled ==
    /\ pc = "export"
    /\ ~(elev.nan \/ azim.nan \/ alpha_deg.nan)
    /\ ~dirExists
    /\ pc' = "main"
    /\ UNCHANGED <<mode, dirExists, loop_azim, loop_alpha, ncalls, calls,
                   elev, azim, alpha_deg, locals, figs, files>>

\* Line 114 without the directory: savefig raises, which nothing handles.
ExportFail ==
    /\ pc = "export"
    /\ ~(elev.nan \/ azim.nan \/ alpha_deg.nan)
    /\ ~dirExists
    /\ pc' = "failed"
    /\ UNCHANGED <<mode, dirExists, loop_azim, loop_alpha, ncalls, calls,
                   elev, azim, alpha_deg, locals, figs, files>>

\* Line 112 with a NaN input: int() raises ValueError, which nothing handles.
NameFail ==
    /\ pc = "export"
    /\ (elev.nan \/ azim.nan \/ alpha_deg.nan)
    /\ pc' = "failed"
    /\ UNCHANGED <<mode, dirExists, loop_azim, loop_alpha, ncalls, calls,
                   elev, azim, alpha_deg, locals, figs, files>>

\* Variant: the figure is left open.
CloseKeepsFigure ==
    /\ pc = "close"
    /\ pc' = "main"
    /\ UNCHANGED <<mode, dirExists, loop_azim, loop_alpha, ncalls, calls,
                   elev, azim, alpha_deg, locals, figs, files>>

\* Line 115: plt.close() closes the current figure; the function returns.
Close ==
    /\ pc = "close"
    /\ figs' = SubSeq(figs, 1, Len(figs) - 1)
    /\ pc' = "main"
    /\ UNCHANGED <<mode, dirExists, loop_azim, loop_alpha, ncalls, calls,
                   elev, azim, alpha_deg, locals, files>>

Next ==
    \/ MainBatch
    \/ MainSingle
    \/ ImportCall
    \/ MainDone
    \/ NewFigure
    \/ Sheet
    \/ SetLimits
    \/ LimitsFail
    \/ Export
    \/ ExportFail
    \/ NameFail
    \/ Close

Spec == Init /\ [][Next]_vars

(***************************************************************************)
(* The claims.                                                             *)
(***************************************************************************)
\* The integer obtained from x by dropping its fractional part.
Trunc(x) ==
    CHOOSE z \in -400..400 :
        IF x.d >= 0 THEN 10 * z <= x.d /\ x.d < 10 * z + 10
                    ELSE 10 * z - 10 < x.d /\ x.d <= 10 * z

\* The name images/calabi_yau_elev<E>_azim<A>_alpha<P>.png of the call c.
ExpectedName(c) ==
    "images/calabi_yau_elev" \o ToString(Trunc(c[1])) \o "_azim" \o ToString(Trunc(c[2]))
        \o "_alpha" \o ToString(Trunc(c[3])) \o ".png"

BatchPairs == {15 * i : i \in 0..23} \X {0, 30, 60, 90}

\* C1: a batch run whose exports all succeed, started with no files, has
\* called plot_calabi_yau exactly 96 times when it ends, always with
\* elevation 32 and once for each pair (azimuth, alpha) of
\* {0,15,...,345} x {0,30,60,90}, and ends with exactly 96 files, one per pair.
C1_Batch96 ==
    (mode = "all" /\ pc = "done") =>
        /\ Len(calls) = 96
        /\ \A c \in 1..Len(calls) : calls[c][1] = Deg(32)
        /\ \A pr \in BatchPairs :
              Cardinality({c \in 1..Len(calls) :
                              calls[c][2] = Deg(pr[1]) /\ calls[c][3] = Deg(pr[2])}) = 1
        /\ Cardinality(DOMAIN files) = 96
        /\ \A pr \in BatchPairs :
              LET nm == ExpectedName(<<Deg(32), Deg(pr[1]), Deg(pr[2])>>)
              IN  nm \in DOMAIN files /\ files[nm].text = <<Deg(pr[2]), Deg(pr[1]), Deg(32)>>

C1_Witness ==
    mode = "all" /\ pc = "done" /\ dirExists /\ Len(calls) = 96
        /\ Cardinality(DOMAIN files) = 96

\* C2: a successful invocation writes exactly one file, at its export step,
\* under the name built from the three inputs truncated to integers; it
\* replaces a file of that name and leaves every other file as it was; no
\* other step touches a file; so whenever control is back in the driver the
\* set of files is the set of names of the truncated triples invoked.
C2_OneFilePerCall ==
    /\ [][IF pc = "export" /\ pc' = "close"
          THEN LET nm == ExpectedName(<<elev, azim, alpha_deg>>)
               IN  /\ DOMAIN files' = DOMAIN files \cup {nm}
                   /\ files'[nm].serial = ncalls
                   /\ \A f \in DOMAIN files \ {nm} : files'[f] = files[f]
          ELSE files' = files]_vars
    /\ [](pc \in {"main", "done"} =>
             DOMAIN files = {ExpectedName(calls[c]) : c \in 1..Len(calls)})

C2_Witness ==
    /\ pc = "main"
    /\ Len(calls) = 2
    /\ calls[1] # calls[2]
    /\ calls[1][1].d # 10 * Trunc(calls[1][1])
    /\ ExpectedName(calls[1]) = ExpectedName(calls[2])
    /\ DOMAIN files = {"images/calabi_yau_elev32_azim0_alpha0.png"}
    /\ files[ExpectedName(calls[2])].serial = 2
\* The figure the running call draws on.
Cur == figs[Len(figs)]

\* v is the largest (smallest) coordinate of the sheets of all.
IsMaxOf(v, all) ==
    /\ \E p \in 1..Len(all) : \E q \in 1..NSample : all[p][q] = v
    /\ \A p \in 1..Len(all) : \A q \in 1..NSample : FLeq(all[p][q], v)

IsMinOf(v, all) ==
    /\ \E p \in 1..Len(all) : \E q \in 1..NSample : all[p][q] = v
    /\ \A p \in 1..Len(all) : \A q \in 1..NSample : FLeq(v, all[p][q])

\* max - min of one coordinate across the sheets of all.
RawRange(all) ==
    LET hi == CHOOSE v \in {all[p][q] : p \in 1..Len(all), q \in 1..NSample} : IsMaxOf(v, all)
        lo == CHOOSE v \in {all[p][q] : p \in 1..Len(all), q \in 1..NSample} : IsMinOf(v, all)
    IN  FSub(hi, lo)

Width(lim) == FSub(lim[2], lim[1])

\* C3: when the limits have been set, the widths of the x, y and z limits
\* are equal, and equal to the largest of the three ranges (max - min) of
\* the coordinates across the 25 sheets.
C3_Cube ==
    pc = "export" =>
        LET rx == RawRange(all_x)
            ry == RawRange(all_y)
            rz == RawRange(all_z)
            top == FMax2(FMax2(rx, ry), rz)
        IN  /\ Width(Cur.lims[1]) = top
            /\ Width(Cur.lims[2]) = top
            /\ Width(Cur.lims[3]) = top

C3_Witness ==
    /\ pc = "export"
    /\ Len(all_z) = 25
    /\ FCmp(RawRange(all_x), RawRange(all_z)) < 0
    /\ FCmp(RawRange(all_y), RawRange(all_z)) < 0
    /\ Width(Cur.lims[1]) = RawRange(all_z)

\* C4: no figure is open while control is in the driver or a call has not
\* yet opened its own; a running call has exactly one figure open, the one
\* it opened, holding only lines it drew; at most one figure is open at any
\* time; every exported figure holds only lines of the call that exported it.
C4_FreshFigure ==
    /\ Len(figs) <= 1
    /\ pc \in {"main", "figure", "done"} => figs = <<>>
    /\ pc \in {"sheets", "limits", "export", "close"} =>
          /\ Len(figs) = 1
          /\ Cur.serial = ncalls
          /\ \A ln \in Cur.lines : ln[1] = ncalls
    /\ \A f \in DOMAIN files : \A ln \in files[f].lines : ln[1] = files[f].serial

C4_Witness ==
    /\ pc = "close"
    /\ ncalls = 2
    /\ Cardinality(DOMAIN files) = 2
    /\ \E f \in DOMAIN files : files[f].serial = 1 /\ Cardinality(files[f].lines) = 25
    /\ \E f \in DOMAIN files : files[f] = Cur /\ Cardinality(Cur.lines) = 25

\* The mesh as a function of alpha_deg alone.
MeshX == [p \in 1..(n * n) |-> SheetX((p - 1) \div n)]

MeshY == [p \in 1..(n * n) |-> SheetY((p - 1) % n)]

MeshZ(al) == [p \in 1..(n * n) |-> SheetZ(al, (p - 1) \div n, (p - 1) % n)]

\* C5: whenever a call has generated its sheets, the recorded X, Y and Z
\* grids are the value of a function of the inputs alone, whatever was
\* rendered before in the same process.
C5_PureMesh ==
    pc \in {"limits", "export", "close"} =>
        /\ all_x = MeshX
        /\ all_y = MeshY
        /\ all_z = MeshZ(alpha_deg)

C5_Witness ==
    /\ pc = "limits"
    /\ ncalls = 2
    /\ calls[1][3] # calls[2][3]
    /\ Len(all_z) = 25
    /\ all_z = MeshZ(calls[2][3])
    /\ all_z # MeshZ(calls[1][3])

\* C6: without the images directory no file is ever written, the export
\* step can only fail, the failure ends the process (no step follows it, so
\* nothing is retried), and no second call is made: a batch run started
\* without the directory stops in its first render with 0 files.
C6_MissingDirectoryFatal ==
    /\ [](~dirExists => (DOMAIN files = {} /\ ncalls <= 1 /\ pc # "close"
                            /\ (ncalls = 1 => pc \notin {"main", "done"})))
    /\ [][(pc = "export" /\ ~dirExists) => pc' = "failed"]_vars
    /\ [][pc # "failed"]_vars

C6_Witness ==
    /\ mode = "all"
    /\ ~dirExists
    /\ pc = "failed"
    /\ Len(order) = 25
    /\ Cur.lims # <<>>
    /\ ncalls = 1
    /\ DOMAIN files = {}

\* C7 as stated: for alpha_deg = 90 the Z of every sheet and every grid
\* point equals Im(z2) at that point.
C7_ExactAt90 ==
    (pc = "limits" /\ alpha_deg = Deg(90)) =>
        \A p \in 1..Len(all_z) : \A q \in 1..NSample :
            all_z[p][q] = Z2Tab[order[p][2]][q].im

\* C7, amended: for alpha_deg = 90 the Z of every sheet and every grid point
\* equals Im(z2) where Im(z1) is zero, and elsewhere differs from Im(z2) by
\* at most 2^-52 * (|Im(z1)| + |Im(z2)|).
C7_NearAt90 ==
    (pc = "limits" /\ alpha_deg = Deg(90)) =>
        \A p \in 1..Len(all_z) : \A q \in 1..NSample :
            LET im1 == Z1Tab[order[p][1]][q].im
                im2 == Z2Tab[order[p][2]][q].im
            IN  /\ FIsZero(im1) => all_z[p][q] = im2
                /\ FLeq(FAbs(FSub(all_z[p][q], im2)),
                        FScale(FAdd(FAbs(im1), FAbs(im2)), -52))

C7_Witness ==
    /\ pc = "limits"
    /\ alpha_deg = Deg(90)
    /\ ~FIsZero(CosAlpha(alpha_deg))
    /\ SinAlpha(alpha_deg) = Dbl(0, -52, <<0, 0, 0, 1024>>)
    /\ \E p \in 1..Len(all_z) : \E q \in 1..NSample :
          all_z[p][q] # Z2Tab[order[p][2]][q].im
    /\ \E p \in 1..Len(all_z) : \E q \in 1..NSample :
          FIsZero(Z1Tab[order[p][1]][q].im) /\ ~FIsZero(all_z[p][q])

\* C8: for alpha_deg = 0 the Z of every sheet and every grid point equals
\* Im(z1) at that point, the grid point where sinh(w) = 0 included.
C8_ExactAt0 ==
    (pc = "limits" /\ alpha_deg = Deg(0)) =>
        \A p \in 1..Len(all_z) : \A q \in 1..NSample :
            all_z[p][q] = Z1Tab[order[p][1]][q].im

C8_Witness ==
    /\ pc = "limits"
    /\ alpha_deg = Deg(0)
    /\ Len(all_z) = 25
    /\ \E q \in 1..NSample :
          /\ SamplePos[q] = <<0, 12>>
          /\ FIsZero(SinhPowTab[q].re) /\ FIsZero(SinhPowTab[q].im)
          /\ \E p \in 1..25 : ~FIsZero(all_z[p][q])
    /\ \E p \in 1..25 : \E q \in 1..NSample : ~FIsZero(Z2Tab[order[p][2]][q].im)

\* C9: the sheets are recorded in the order outer k1, inner k2: position p
\* (from 0) of the lists holds the sheet of (p div 5, p mod 5); no pair is
\* recorded twice; there are exactly 25 once the loops are left, and the
\* limits are set only then (all of this while a call is running).
C9_SheetOrder ==
    pc \in {"sheets", "limits", "export", "close"} =>
        /\ Len(order) <= 25
        /\ Len(all_x) = Len(order) /\ Len(all_y) = Len(order) /\ Len(all_z) = Len(order)
        /\ \A p \in 1..Len(order) :
              /\ order[p] = <<(p - 1) \div 5, (p - 1) % 5>>
              /\ all_x[p] = SheetX(order[p][1])
              /\ all_y[p] = SheetY(order[p][2])
              /\ all_z[p] = SheetZ(alpha_deg, order[p][1], order[p][2])
        /\ pc # "sheets" => Len(order) = 25
        /\ Cur.lims # <<>> => Len(order) = 25
        /\ pc \in {"sheets", "limits"} => Cur.lims = <<>>

C9_Witness ==
    /\ pc = "export"
    /\ Len(order) = 25
    /\ {order[p] : p \in 1..25} = (0..4) \X (0..4)
    /\ order[6] = <<1, 0>>
    /\ Cur.lims # <<>>

\* C10 as stated: once the limits are set, every coordinate of every sheet
\* lies between the two limits of its axis.
C10_Inside ==
    pc = "export" =>
        \A p \in 1..25 : \A q \in 1..NSample :
            /\ FLeq(Cur.lims[1][1], all_x[p][q]) /\ FLeq(all_x[p][q], Cur.lims[1][2])
            /\ FLeq(Cur.lims[2][1], all_y[p][q]) /\ FLeq(all_y[p][q], Cur.lims[2][2])
            /\ FLeq(Cur.lims[3][1], all_z[p][q]) /\ FLeq(all_z[p][q], Cur.lims[3][2])

\* The limits of an axis widened on each side by 2^-52 * max(|lo|, |hi|).
Widened(lim) ==
    LET t == FScale(FMax2(FAbs(lim[1]), FAbs(lim[2])), -52)
    IN  <<FSub(lim[1], t), FAdd(lim[2], t)>>

Within(lim, v) == FLeq(lim[1], v) /\ FLeq(v, lim[2])

\* C10, amended: once the limits are set, every coordinate of every sheet
\* lies between the two limits of its axis widened on each side by 2^-52
\* times the larger magnitude of the two limits.
C10_InsideWithinRounding ==
    pc = "export" =>
        LET wx == Widened(Cur.lims[1])
            wy == Widened(Cur.lims[2])
            wz == Widened(Cur.lims[3])
        IN  \A p \in 1..25 : \A q \in 1..NSample :
                /\ Within(wx, all_x[p][q])
                /\ Within(wy, all_y[p][q])
                /\ Within(wz, all_z[p][q])

C10_Witness ==
    /\ pc = "export"
    /\ alpha_deg = Deg(30)
    /\ \E p \in 1..25 : \E q \in 1..NSample :
          /\ FCmp(all_z[p][q], Cur.lims[3][1]) < 0
          /\ Within(Widened(Cur.lims[3]), all_z[p][q])
====
